---------------------------- MODULE Spec2Model ----------------------------
(***************************************************************************)
(* Model of tools/fix_md_tables.py: the markdown table normalizer.         *)
(*                                                                         *)
(* A text is a sequence of one-character strings.  A file's content is the *)
(* text that Path.read_text returns (text mode translates "\r\n" and "\r"  *)
(* to "\n", so a carriage return never reaches the normalizer); the line   *)
(* boundaries of str.splitlines that survive that translation are kept,    *)
(* the form feed standing for them.                                        *)
(***************************************************************************)
EXTENDS Integers, Sequences, FiniteSets, TLC

VARIABLES
    fs,          \* the files on disk: path -> text, for the paths that exist
    argv,        \* sys.argv[1:]
    pc,          \* position of main: "start", "loop", "scan", "done"
    targets,     \* main: the sorted list gather_files returned
    fi,          \* main: index in targets of the file being processed
    any_changed, \* main: any_changed
    exit_code,   \* status main returned (-1 while running)
    lines,       \* process_file: text.splitlines(keepends=True)
    li,          \* process_file: index of the next line of the for loop
    in_fence,    \* process_file: in_fence
    changed,     \* process_file: changed
    out_lines,   \* process_file: out_lines
    io_log,      \* the file operations of this run, in order: <<op, path>>
    exits        \* exit statuses of the earlier runs of the tool, in order

vars == <<fs, argv, pc, targets, fi, any_changed, exit_code, lines, li,
          in_fence, changed, out_lines, io_log, exits>>

----------------------------------------------------------------------------
(* Bounds of the model *)

\* longest text of the single file of SpecFile
MaxTextLen == 6
\* longest line body (the line without its terminator) of SpecLine
MaxBodyLen == 5
\* most command-line arguments of Spec
MaxArgs == 2
\* most runs of the tool in a behaviour
MaxRuns == 2

----------------------------------------------------------------------------
(* Characters *)

NL == "\n"
FF == "\f"
PIPE == "|"
\* the backquote (a TLA+ string cannot hold the character itself)
TICK == "BQ"

\* str.strip / str.lstrip with no argument, and \s of re: whitespace
WS == {" ", NL, FF, "\t"}
\* the boundaries str.splitlines splits on
LineBreaks == {NL, FF}

----------------------------------------------------------------------------
(* String helpers: what the str methods used by the script compute *)

RECURSIVE LStrip(_)
LStrip(s) ==
    IF s # <<>> /\ Head(s) \in WS THEN LStrip(Tail(s)) ELSE s

RECURSIVE RStrip(_)
RStrip(s) ==
    IF s # <<>> /\ s[Len(s)] \in WS THEN RStrip(SubSeq(s, 1, Len(s) - 1)) ELSE s

Strip(s) == LStrip(RStrip(s))

\* line.rstrip("\n"): every trailing newline is removed, nothing else
RECURSIVE RStripNL(_)
RStripNL(s) ==
    IF s # <<>> /\ s[Len(s)] = NL THEN RStripNL(SubSeq(s, 1, Len(s) - 1)) ELSE s

StartsWith(s, p) == Len(s) >= Len(p) /\ SubSeq(s, 1, Len(p)) = p

EndsWith(s, p) == Len(s) >= Len(p) /\ SubSeq(s, Len(s) - Len(p) + 1, Len(s)) = p

\* s.count(c)
Count(s, c) == Cardinality({k \in 1..Len(s) : s[k] = c})

\* s.split(c): the segments between the occurrences of c, empty ones kept
RECURSIVE SplitAcc(_, _, _)
SplitAcc(s, c, cur) ==
    IF s = <<>> THEN <<cur>>
    ELSE IF Head(s) = c THEN <<cur>> \o SplitAcc(Tail(s), c, <<>>)
    ELSE SplitAcc(Tail(s), c, Append(cur, Head(s)))

Split(s, c) == SplitAcc(s, c, <<>>)

\* sep.join(parts)
RECURSIVE Join(_, _)
Join(parts, sep) ==
    IF parts = <<>> THEN <<>>
    ELSE IF Len(parts) = 1 THEN parts[1]
    ELSE parts[1] \o sep \o Join(Tail(parts), sep)

\* "".join(parts)
Concat(parts) == Join(parts, <<>>)

\* text.splitlines(keepends=True)
RECURSIVE SplitLinesAcc(_, _)
SplitLinesAcc(s, cur) ==
    IF s = <<>> THEN (IF cur = <<>> THEN <<>> ELSE <<cur>>)
    ELSE IF Head(s) \in LineBreaks
         THEN <<Append(cur, Head(s))>> \o SplitLinesAcc(Tail(s), <<>>)
    ELSE SplitLinesAcc(Tail(s), Append(cur, Head(s)))

SplitLines(s) == SplitLinesAcc(s, <<>>)

----------------------------------------------------------------------------
(* The line classifier and the rewrite *)

is_fence(line) == StartsWith(LStrip(line), <<TICK, TICK, TICK>>)

\* re.match(r'^\s*[-*+]\s', line)
BulletMatch(line) ==
    LET r == LStrip(line)
    IN  Len(r) >= 2 /\ r[1] \in {"-", "*", "+"} /\ r[2] \in WS

is_table_row(line) ==
    LET stripped == Strip(line)
    IN  /\ StartsWith(stripped, <<PIPE>>)
        /\ EndsWith(stripped, <<PIPE>>)
        /\ Count(stripped, PIPE) >= 2
        /\ ~BulletMatch(line)

\* $ of re at position k of s: the end, or just before a final newline
AtEnd(s, k) == k = Len(s) + 1 \/ (k = Len(s) /\ s[k] = NL)

\* sep_pattern.match(s) for sep_pattern = ^:?-+:?$
SepMatch(s) ==
    \E a \in 0..1 : \E n \in 1..Len(s) : \E b \in 0..1 :
        /\ a + n + b <= Len(s)
        /\ a = 1 => s[1] = ":"
        /\ \A k \in (a + 1)..(a + n) : s[k] = "-"
        /\ b = 1 => s[a + n + 1] = ":"
        /\ AtEnd(s, a + n + b + 1)

\* parts[1:] for parts[1:-1]: the text after the last pipe taken for a cell
InnerPartsKeepingLast(parts) == SubSeq(parts, 2, Len(parts))

\* parts[1:-1]
InnerParts(parts) == SubSeq(parts, 2, Len(parts) - 1)

\* is_separator without its filter "if p.strip()": blank cells must match too
IsSeparatorAllCells(inner_parts) ==
    \A k \in 1..Len(inner_parts) : SepMatch(Strip(inner_parts[k]))

\* is_separator of normalize_table_line
IsSeparator(inner_parts) ==
    \A k \in 1..Len(inner_parts) :
        Strip(inner_parts[k]) # <<>> => SepMatch(Strip(inner_parts[k]))

\* NormalizeCell with right_colon tested by startswith
NormalizeCellLeftColonTwice(p, is_separator) ==
    LET content == Strip(p)
    IN  IF is_separator /\ content # <<>>
        THEN LET left_colon == IF StartsWith(content, <<":">>) THEN <<":">> ELSE <<>>
                 right_colon == IF StartsWith(content, <<":">>) THEN <<":">> ELSE <<>>
             IN  <<" ">> \o left_colon \o <<"-", "-", "-">> \o right_colon \o <<" ">>
        ELSE IF content # <<>>
        THEN <<" ">> \o content \o <<" ">>
        ELSE <<" ">>

\* one iteration of the loop building normalized_cells
NormalizeCell(p, is_separator) ==
    LET content == Strip(p)
    IN  IF is_separator /\ content # <<>>
        THEN LET left_colon == IF StartsWith(content, <<":">>) THEN <<":">> ELSE <<>>
                 right_colon == IF EndsWith(content, <<":">>) THEN <<":">> ELSE <<>>
             IN  <<" ">> \o left_colon \o <<"-", "-", "-">> \o right_colon \o <<" ">>
        ELSE IF content # <<>>
        THEN <<" ">> \o content \o <<" ">>
        ELSE <<" ">>

\* the line ending put back after the rebuilt row
LineEnding(line) == IF EndsWith(line, <<NL>>) THEN <<NL>> ELSE <<>>

normalize_table_line(line) ==
    LET stripped == RStripNL(line)
        parts == Split(stripped, PIPE)
    IN  IF Len(parts) < 3 THEN line
        ELSE LET inner_parts == InnerParts(parts)
                 is_separator == IsSeparator(inner_parts)
                 normalized_cells ==
                     [k \in 1..Len(inner_parts) |->
                         NormalizeCell(inner_parts[k], is_separator)]
             IN  <<PIPE>> \o Join(normalized_cells, <<PIPE>>) \o <<PIPE>>
                 \o LineEnding(line)

----------------------------------------------------------------------------
(* Paths and the file selector *)

\* A path is the sequence of its segments; Path(".") is the empty sequence.
A_MD == <<"a.md">>
B_MD == <<"docs", "b.md">>
C_MD == <<"docs", "node_modules", "c.md">>
NOTES == <<"notes.txt">>

\* the segment names of the model in the order str compares them
SegOrder == <<"a.md", "b.md", "c.md", "docs", "node_modules", "notes.txt">>

SegRank(name) == CHOOSE k \in 1..Len(SegOrder) : SegOrder[k] = name

\* Path.__lt__: the segments compared one by one, a proper prefix first
RECURSIVE PathLess(_, _)
PathLess(p, q) ==
    IF q = <<>> THEN FALSE
    ELSE IF p = <<>> THEN TRUE
    ELSE IF Head(p) = Head(q) THEN PathLess(Tail(p), Tail(q))
    ELSE SegRank(Head(p)) < SegRank(Head(q))

\* sorted(S) for a set of paths
RECURSIVE Sorted(_)
Sorted(S) ==
    IF S = {} THEN <<>>
    ELSE LET m == CHOOSE x \in S : \A y \in S \ {x} : PathLess(x, y)
         IN  <<m>> \o Sorted(S \ {m})

\* fnmatch of a file name against "*.md"
IsMd(name) == name \in {"a.md", "b.md", "c.md"}

\* ppath.is_file()
IsFile(files, p) == p \in DOMAIN files

\* ppath.rglob("*.md"): the markdown files anywhere beneath directory ppath
RGlobMd(files, ppath) ==
    {p \in DOMAIN files :
        /\ Len(p) > Len(ppath)
        /\ SubSeq(p, 1, Len(ppath)) = ppath
        /\ IsMd(p[Len(p)])}

\* "node_modules" in str(p)
InVendor(p) == \E k \in 1..Len(p) : p[k] = "node_modules"

\* the paths one command-line argument contributes
ArgPaths(files, p) == IF IsFile(files, p) THEN {p} ELSE RGlobMd(files, p)

gather_files(files, args) ==
    IF args # <<>>
    THEN Sorted(UNION {ArgPaths(files, args[k]) : k \in 1..Len(args)})
    ELSE Sorted({p \in RGlobMd(files, <<>>) : ~InVendor(p)})

----------------------------------------------------------------------------
(* The driver: main and process_file *)

Target == targets[fi]

LogEntry(op, path, text) == [op |-> op, path |-> path, text |-> text]

\* main, lines 142-146: select the files; none is exit status 1
Gather ==
    /\ pc = "start"
    /\ targets' = gather_files(fs, argv)
    /\ IF targets' = <<>>
       THEN pc' = "done" /\ exit_code' = 1
       ELSE pc' = "loop" /\ exit_code' = exit_code
    /\ fi' = 1
    /\ any_changed' = FALSE
    /\ UNCHANGED <<fs, argv, lines, li, in_fence, changed, out_lines, io_log, exits>>

\* process_file, lines 89-93: the file is read and split into lines
ReadFile ==
    /\ pc = "loop"
    /\ fi <= Len(targets)
    /\ lines' = SplitLines(fs[Target])
    /\ li' = 1
    /\ in_fence' = FALSE
    /\ changed' = FALSE
    /\ out_lines' = <<>>
    /\ io_log' = Append(io_log, LogEntry("read", Target, fs[Target]))
    /\ pc' = "scan"
    /\ UNCHANGED <<fs, argv, targets, fi, any_changed, exit_code, exits>>

\* ReadFails with "continue" for "return 2": the run goes on to the next file
ReadFailsContinue ==
    /\ pc = "loop"
    /\ fi <= Len(targets)
    /\ io_log' = Append(io_log, LogEntry("error", Target, <<>>))
    /\ fi' = fi + 1
    /\ UNCHANGED <<fs, argv, pc, targets, any_changed, exit_code, lines, li,
                   in_fence, changed, out_lines, exits>>

\* read_text raises: main reports the file and returns 2
ReadFails ==
    /\ pc = "loop"
    /\ fi <= Len(targets)
    /\ io_log' = Append(io_log, LogEntry("error", Target, <<>>))
    /\ pc' = "done"
    /\ exit_code' = 2
    /\ UNCHANGED <<fs, argv, targets, fi, any_changed, lines, li, in_fence,
                   changed, out_lines, exits>>

\* ScanOut without the test of in_fence: rows inside a fence are rewritten
ScanOutIgnoringFence(line, fence) ==
    IF is_fence(line) THEN line
    ELSE IF is_table_row(line) THEN normalize_table_line(line)
    ELSE line

\* the new line of one iteration of the for loop of process_file
ScanOut(line, fence) ==
    IF is_fence(line) \/ fence THEN line
    ELSE IF is_table_row(line) THEN normalize_table_line(line)
    ELSE line

\* one iteration of the for loop of process_file
ScanLine ==
    /\ pc = "scan"
    /\ li <= Len(lines)
    /\ LET line == lines[li]
           new_line == ScanOut(line, in_fence)
       IN  /\ in_fence' = IF is_fence(line) THEN ~in_fence ELSE in_fence
           /\ out_lines' = Append(out_lines, new_line)
           /\ changed' = (changed \/ new_line # line)
    /\ li' = li + 1
    /\ UNCHANGED <<fs, argv, pc, targets, fi, any_changed, exit_code, lines,
                   io_log, exits>>

\* process_file, lines 119-121, changed: the file is rewritten; main notes it
WriteBack ==
    /\ pc = "scan"
    /\ li > Len(lines)
    /\ changed
    /\ fs' = [fs EXCEPT ![Target] = Concat(out_lines)]
    /\ io_log' = Append(io_log, LogEntry("write", Target, Concat(out_lines)))
    /\ any_changed' = TRUE
    /\ fi' = fi + 1
    /\ pc' = "loop"
    /\ UNCHANGED <<argv, targets, exit_code, lines, li, in_fence, changed,
                   out_lines, exits>>

\* write_text raises: the file is as it was, or was truncated on opening
WriteFails ==
    /\ pc = "scan"
    /\ li > Len(lines)
    /\ changed
    /\ \E truncated \in BOOLEAN :
          fs' = IF truncated THEN [fs EXCEPT ![Target] = <<>>] ELSE fs
    /\ io_log' = Append(io_log, LogEntry("error", Target, <<>>))
    /\ pc' = "done"
    /\ exit_code' = 2
    /\ UNCHANGED <<argv, targets, fi, any_changed, lines, li, in_fence, changed,
                   out_lines, exits>>

\* ReturnUnchanged without the test "if changed": the file is written anyway
ReturnUnchangedWriting ==
    /\ pc = "scan"
    /\ li > Len(lines)
    /\ ~changed
    /\ fs' = [fs EXCEPT ![Target] = Concat(out_lines)]
    /\ io_log' = Append(io_log, LogEntry("write", Target, Concat(out_lines)))
    /\ fi' = fi + 1
    /\ pc' = "loop"
    /\ UNCHANGED <<argv, targets, any_changed, exit_code, lines, li, in_fence,
                   changed, out_lines, exits>>

\* process_file, lines 119-121, not changed: nothing is written
ReturnUnchanged ==
    /\ pc = "scan"
    /\ li > Len(lines)
    /\ ~changed
    /\ fi' = fi + 1
    /\ pc' = "loop"
    /\ UNCHANGED <<fs, argv, targets, any_changed, exit_code, lines, li, in_fence,
                   changed, out_lines, io_log, exits>>

\* Finish returning 1 when no file changed
FinishByChange ==
    /\ pc = "loop"
    /\ fi > Len(targets)
    /\ pc' = "done"
    /\ exit_code' = IF any_changed THEN 0 ELSE 1
    /\ UNCHANGED <<fs, argv, targets, fi, any_changed, lines, li, in_fence,
                   changed, out_lines, io_log, exits>>

\* main, lines 156-160: every file was processed
Finish ==
    /\ pc = "loop"
    /\ fi > Len(targets)
    /\ pc' = "done"
    /\ exit_code' = 0
    /\ UNCHANGED <<fs, argv, targets, fi, any_changed, lines, li, in_fence,
                   changed, out_lines, io_log, exits>>

\* the tool is run again with the same arguments on the files as they are now
Rerun ==
    /\ pc = "done"
    /\ Len(exits) + 1 < MaxRuns
    /\ exits' = Append(exits, exit_code)
    /\ pc' = "start"
    /\ targets' = <<>>
    /\ fi' = 1
    /\ any_changed' = FALSE
    /\ exit_code' = -1
    /\ lines' = <<>>
    /\ li' = 1
    /\ in_fence' = FALSE
    /\ changed' = FALSE
    /\ out_lines' = <<>>
    /\ io_log' = <<>>
    /\ UNCHANGED <<fs, argv>>

Next ==
    \/ Gather
    \/ ReadFile
    \/ ReadFails
    \/ ScanLine
    \/ WriteBack
    \/ WriteFails
    \/ ReturnUnchanged
    \/ Finish
    \/ Rerun

----------------------------------------------------------------------------
(* Initial states *)

\* every text of at most n characters drawn from chars
TextsUpTo(chars, n) == UNION {[1..k -> chars] : k \in 0..n}

\* the program before main runs, on the files and arguments given
Start(files, args) ==
    /\ fs = files
    /\ argv = args
    /\ pc = "start"
    /\ targets = <<>>
    /\ fi = 1
    /\ any_changed = FALSE
    /\ exit_code = -1
    /\ lines = <<>>
    /\ li = 1
    /\ in_fence = FALSE
    /\ changed = FALSE
    /\ out_lines = <<>>
    /\ io_log = <<>>
    /\ exits = <<>>

\* a row to rewrite and a row already in canonical form
TreeTexts == {<<PIPE, PIPE, NL>>, <<PIPE, " ", PIPE, NL>>}

\* the file trees of Spec: any of the four files may be missing
Trees ==
    UNION {[D -> TreeTexts] : D \in SUBSET {A_MD, B_MD, C_MD, NOTES}}

\* the command-line arguments of Spec
ArgNames == {<<>>, <<"docs">>, A_MD, C_MD, NOTES}

Init == \E files \in Trees : \E args \in TextsUpTo(ArgNames, MaxArgs) :
            Start(files, args)

Spec == Init /\ [][Next]_vars

\* the characters of the texts of SpecFile
TextChars == {PIPE, TICK, NL, FF, " "}

\* one file a.md holding any text, or no file at all
InitFile ==
    \E files \in {[p \in {} |-> <<>>]}
                 \cup {[p \in {A_MD} |-> t] : t \in TextsUpTo(TextChars, MaxTextLen)} :
        Start(files, <<A_MD>>)

SpecFile == InitFile /\ [][Next]_vars

\* the characters of the line bodies of SpecLine
BodyChars == {PIPE, "-", ":", "a", " "}

\* one file a.md holding a single line with any ending, or no file at all
InitLine ==
    \E files \in {[p \in {} |-> <<>>]}
                 \cup {[p \in {A_MD} |-> body \o term] :
                          body \in TextsUpTo(BodyChars, MaxBodyLen),
                          term \in {<<>>, <<NL>>, <<FF>>}} :
        Start(files, <<A_MD>>)

SpecLine == InitLine /\ [][Next]_vars

----------------------------------------------------------------------------
(* Vocabulary of the properties *)

\* the lines the for loop of process_file has emitted so far
Scanned == 1..Len(out_lines)

\* the number of fence markers above line i
FencesBefore(i) == Cardinality({j \in 1..(i - 1) : is_fence(lines[j])})

\* line i lies between an odd-indexed fence marker and the next marker
InsideFence(i) == ~is_fence(lines[i]) /\ FencesBefore(i) % 2 = 1

\* line i is rewritten as a table row
RowAt(i) ==
    /\ i \in Scanned
    /\ ~is_fence(lines[i])
    /\ FencesBefore(i) % 2 = 0
    /\ is_table_row(lines[i])

\* the cells of a row: the text between each two neighbouring pipes
Cells(line) == InnerParts(Split(line, PIPE))

Blank(cell) == \A k \in 1..Len(cell) : cell[k] \in WS

\* a trimmed cell of the form ^:?-+:?$
DashCell(c) ==
    LET a == IF c # <<>> /\ c[1] = ":" THEN 1 ELSE 0
        b == IF Len(c) > a /\ c[Len(c)] = ":" THEN 1 ELSE 0
    IN  /\ Len(c) - a - b >= 1
        /\ \A k \in (a + 1)..(Len(c) - b) : c[k] = "-"

\* at least one cell is not blank and every such cell is a dash cell
SeparatorRow(cells) ==
    /\ \E k \in 1..Len(cells) : ~Blank(cells[k])
    /\ \A k \in 1..Len(cells) : ~Blank(cells[k]) => DashCell(Strip(cells[k]))

\* the three-dash alignment marker of a trimmed dash cell
Marker(c) ==
    <<" ">> \o (IF c[1] = ":" THEN <<":">> ELSE <<>>) \o <<"-", "-", "-">>
    \o (IF c[Len(c)] = ":" THEN <<":">> ELSE <<>>) \o <<" ">>

\* s without its whitespace
RECURSIVE NonWS(_)
NonWS(s) ==
    IF s = <<>> THEN <<>>
    ELSE IF Head(s) \in WS THEN NonWS(Tail(s))
    ELSE <<Head(s)>> \o NonWS(Tail(s))

\* s with every run of dashes shortened to one dash
RECURSIVE Squash(_)
Squash(s) ==
    IF Len(s) < 2 THEN s
    ELSE IF s[1] = "-" /\ s[2] = "-" THEN Squash(Tail(s))
    ELSE <<Head(s)>> \o Squash(Tail(s))

\* the line-break character a line ends with, if any
Terminator(line) ==
    IF line # <<>> /\ line[Len(line)] \in LineBreaks
    THEN <<line[Len(line)]>> ELSE <<>>

HasError(log) == \E k \in 1..Len(log) : log[k].op = "error"

ReadPaths(log) ==
    LET idx == {k \in 1..Len(log) : log[k].op = "read"}
        nth(n) == CHOOSE k \in idx : Cardinality({j \in idx : j < k}) = n - 1
    IN  [n \in 1..Cardinality(idx) |-> log[nth(n)].path]

----------------------------------------------------------------------------
(* Properties *)

\* C1: no path that gather_files returns contains the segment node_modules,
\* whatever the arguments.
NoVendorSelected ==
    \A k \in 1..Len(targets) : ~InVendor(targets[k])

\* C2: a second run over a file the first run has normalized reports no
\* change and writes nothing.
SecondRunNoChange ==
    (pc = "done" /\ exits = <<0>> /\ exit_code = 0)
        => /\ ~any_changed
           /\ \A k \in 1..Len(io_log) : io_log[k].op # "write"

ExitStatus ==
    pc = "done" =>
        /\ exit_code \in {0, 1, 2}
        /\ exit_code = 1 <=> targets = <<>>
        /\ exit_code = 2 <=> HasError(io_log)
        /\ exit_code = 0 <=>
              /\ targets # <<>>
              /\ ~HasError(io_log)
              /\ ReadPaths(io_log) = targets

\* a run over several files ended with status 0 and changed none of them
ExitStatusWitness ==
    /\ pc = "done"
    /\ exit_code = 0
    /\ Len(targets) >= 2
    /\ ~any_changed

\* C5: the files are read in the sorted order of the list, a file is written
\* right after it was read, a failure is the last file operation of the run
\* and ends it with status 2, and every file the run has rewritten holds
\* what was written.
AbortOnFirstError ==
    /\ \A j, k \in 1..Len(targets) : j < k => PathLess(targets[j], targets[k])
    /\ Len(ReadPaths(io_log)) <= Len(targets)
    /\ ReadPaths(io_log) = SubSeq(targets, 1, Len(ReadPaths(io_log)))
    /\ \A k \in 1..Len(io_log) :
          /\ io_log[k].op = "error" =>
                k = Len(io_log) /\ pc = "done" /\ exit_code = 2
          /\ io_log[k].op = "write" =>
                /\ k > 1
                /\ io_log[k - 1].op = "read"
                /\ io_log[k - 1].path = io_log[k].path
                /\ fs[io_log[k].path] = io_log[k].text

\* a run rewrote a file, then failed, and left a later file untouched
AbortOnFirstErrorWitness ==
    /\ pc = "done"
    /\ exit_code = 2
    /\ fi < Len(targets)
    /\ \E k \in 1..Len(io_log) : io_log[k].op = "write"
    /\ io_log[Len(io_log)].op = "error"

\* C6: when process_file has returned, the file was written, and true was
\* returned, exactly if some emitted line differs from the line read; if
\* none differs the file holds what was read.  A failed write was attempted
\* only for a file with such a line.
WriteOnlyOnChange ==
    LET differs == \E i \in 1..Len(lines) : out_lines[i] # lines[i]
        last == io_log[Len(io_log)]
    IN  /\ (pc = "loop" /\ fi > 1) =>
              IF differs
              THEN /\ changed
                   /\ last = LogEntry("write", targets[fi - 1], Concat(out_lines))
                   /\ fs[targets[fi - 1]] = Concat(out_lines)
              ELSE /\ ~changed
                   /\ last.op = "read"
                   /\ last.path = targets[fi - 1]
                   /\ fs[targets[fi - 1]] = last.text
        /\ (pc = "done" /\ Len(io_log) >= 2 /\ last.op = "error"
              /\ io_log[Len(io_log) - 1] = LogEntry("read", last.path, Concat(lines)))
              => differs

\* process_file returned false for a file that holds a table row
WriteOnlyOnChangeWitness ==
    /\ pc = "loop"
    /\ fi > 1
    /\ ~changed
    /\ \E i \in 1..Len(lines) : is_table_row(lines[i])
    /\ io_log[Len(io_log)].op = "read"

\* C7: a row with a non-blank cell whose non-blank cells are all dash cells
\* has each non-blank cell rewritten to the alignment marker with its colons
\* kept; in any other row each non-blank cell keeps its trimmed content
\* between two spaces.
SeparatorDetection ==
    \A i \in Scanned : RowAt(i) =>
        LET old == Cells(lines[i])
            new == Cells(out_lines[i])
        IN  /\ Len(new) = Len(old)
            /\ \A k \in 1..Len(old) : ~Blank(old[k]) =>
                  new[k] = IF SeparatorRow(old)
                           THEN Marker(Strip(old[k]))
                           ELSE <<" ">> \o Strip(old[k]) \o <<" ">>

\* a separator row with a blank cell was rewritten
SeparatorDetectionWitness ==
    \E i \in Scanned :
        /\ RowAt(i)
        /\ SeparatorRow(Cells(lines[i]))
        /\ \E k \in 1..Len(Cells(lines[i])) : Blank(Cells(lines[i])[k])
        /\ out_lines[i] # lines[i]

\* C8: a rewritten row has as many cells as the row read, counted by its
\* pipes, and each blank cell is a single space.
CellCountPreserved ==
    \A i \in Scanned : RowAt(i) =>
        /\ Count(out_lines[i], PIPE) = Count(lines[i], PIPE)
        /\ Len(Cells(out_lines[i])) = Len(Cells(lines[i]))
        /\ \A k \in 1..Len(Cells(lines[i])) :
              Blank(Cells(lines[i])[k]) => Cells(out_lines[i])[k] = <<" ">>

\* a row of several cells, one of them empty, was rewritten
CellCountPreservedWitness ==
    \E i \in Scanned :
        /\ RowAt(i)
        /\ Len(Cells(lines[i])) >= 2
        /\ \E k \in 1..Len(Cells(lines[i])) : Cells(lines[i])[k] = <<>>
        /\ \E k \in 1..Len(Cells(lines[i])) : ~Blank(Cells(lines[i])[k])
        /\ out_lines[i] # lines[i]

\* C9: every emitted line ends with the line-break character, if any, that
\* the line read ends with, so the emitted text has as many lines as the
\* text read.
NewlinePreserved ==
    /\ \A i \in Scanned : Terminator(out_lines[i]) = Terminator(lines[i])
    /\ Len(SplitLines(Concat(out_lines))) = Len(out_lines)

\* C10: a content row keeps its trimmed cell contents in order and differs
\* from the row read in whitespace only; a separator row keeps, cell by
\* cell, its leading and its trailing colon, and differs from the row read
\* only in whitespace and in the length of its runs of dashes.
ContentPreserved ==
    \A i \in Scanned : RowAt(i) =>
        LET old == Cells(lines[i])
            new == Cells(out_lines[i])
        IN  /\ Len(new) = Len(old)
            /\ IF SeparatorRow(old)
               THEN /\ \A k \in 1..Len(old) :
                          /\ StartsWith(Strip(new[k]), <<":">>)
                                <=> StartsWith(Strip(old[k]), <<":">>)
                          /\ EndsWith(Strip(new[k]), <<":">>)
                                <=> EndsWith(Strip(old[k]), <<":">>)
                    /\ Squash(NonWS(out_lines[i])) = Squash(NonWS(lines[i]))
               ELSE /\ \A k \in 1..Len(old) : Strip(new[k]) = Strip(old[k])
                    /\ NonWS(out_lines[i]) = NonWS(lines[i])

\* a content row with two non-blank cells was rewritten
ContentPreservedWitness ==
    \E i \in Scanned :
        /\ RowAt(i)
        /\ ~SeparatorRow(Cells(lines[i]))
        /\ Cardinality({k \in 1..Len(Cells(lines[i])) : ~Blank(Cells(lines[i])[k])}) >= 2
        /\ out_lines[i] # lines[i]

=============================================================================
